---- MODULE Spec2Model ----
(***************************************************************************)
(* Model of src/sitemap.py: the sitemap parser of "Mathe für Nicht-Freaks". *)
(* A sitemap text is a sequence of lines, a line a sequence of characters   *)
(* (one-character strings).  The raw tree that parse_sitemap builds out of  *)
(* Python dictionaries is an arena: a sequence of node records whose        *)
(* `children` fields hold arena indices, so that the alias `last_node` is   *)
(* an index too.  The tree returned by parse_sitemap_node_codes is a fresh  *)
(* value and is modelled as nested records.                                 *)
(***************************************************************************)
EXTENDS Integers, Sequences, FiniteSets, TLC

VARIABLES text, nodes, last_node, pc, err, result

vars == <<text, nodes, last_node, pc, err, result>>

(***************************************************************************)
(* Bounds of the model.                                                     *)
(***************************************************************************)
\* Longest sitemap text (in lines) that is explored.
MaxLines == 5

(***************************************************************************)
(* Strings.                                                                 *)
(***************************************************************************)
ExcludePrefix == <<":", " ", "E", "x", "c", "l", "u", "d", "e", ":">>

SymbolOpen == <<"{", "S", "y", "m", "b", "o", "l", "|">>

SymbolClose == <<"%", "}", "}">>

RootCode == <<"M", "a", "t", "h", "e", " ", "f", "ü", "r", " ", "N", "i", "c", "h", "t", "-", "F", "r", "e", "a", "k", "s">>

SITEMAP_NODE_TYPES == <<"mfnf_sitemap", "book", "chapter", "article", "article">>

\* Characters matched by \s and removed by str.strip().
Space == {" ", "\t"}

IsSpace(c) == c \in Space

\* Characters matched by \d.
Digit == {"0", "1", "2", "3", "4", "5", "6", "7", "8", "9"}

Max(S) == CHOOSE x \in S : \A y \in S : y <= x

Min(S) == CHOOSE x \in S : \A y \in S : x <= y

\* s[i:] of Python, for the 1-based position i.
From(s, i) == SubSeq(s, i, Len(s))

\* The characters of s at the positions i to j, as far as s has them.
Slice(s, i, j) == SubSeq(s, i, IF j < Len(s) THEN j ELSE Len(s))

\* text.startswith(prefix)
StartsWith(s, prefix) ==
    /\ Len(prefix) <= Len(s)
    /\ SubSeq(s, 1, Len(prefix)) = prefix

\* Length of the longest run, from position i of s on, of characters that
\* are in `chars` (inside = TRUE) or not in `chars` (inside = FALSE).
RECURSIVE Run(_, _, _, _)
Run(s, i, chars, inside) ==
    IF i <= Len(s) /\ ((s[i] \in chars) = inside)
    THEN 1 + Run(s, i + 1, chars, inside)
    ELSE 0

\* Length of the run of whitespace that ends s.
RECURSIVE TrailingSpace(_)
TrailingSpace(s) ==
    IF s # <<>> /\ IsSpace(s[Len(s)])
    THEN 1 + TrailingSpace(SubSeq(s, 1, Len(s) - 1))
    ELSE 0

\* str.strip(): the string without its leading and trailing whitespace.
Strip(s) ==
    LET lead == Run(s, 1, Space, TRUE)
    IN  IF lead = Len(s) THEN <<>>
        ELSE SubSeq(s, lead + 1, Len(s) - TrailingSpace(s))

\* remove_prefix(text, prefix)
remove_prefix(s, prefix) ==
    IF StartsWith(s, prefix) THEN From(s, Len(prefix) + 1) ELSE s

(***************************************************************************)
(* generate_sitemap_nodes: the line classifier.                             *)
(***************************************************************************)
max_headline_depth == 6

\* A regex match is <<>> (None) or <<m>>, m holding len(group(1)) and
\* group(2).

\* headline_re.fullmatch(s) for (={1,6})(.*)\1 : the first group is greedy,
\* so the longest run of 1..6 equal signs that both opens and closes s wins.
headline_re(s) ==
    LET runs == {k \in 1..max_headline_depth :
                    /\ 2 * k <= Len(s)
                    /\ \A i \in 1..k : s[i] = "=" /\ s[Len(s) - k + i] = "="}
    IN  IF runs = {} THEN <<>>
        ELSE <<[len1 |-> Max(runs),
                group2 |-> SubSeq(s, Max(runs) + 1, Len(s) - Max(runs))]>>

\* list_re.fullmatch(s) for ([*]+)(.*) : the first group takes every leading
\* asterisk.
list_re(s) ==
    LET stars == Run(s, 1, {"*"}, TRUE)
    IN  IF stars = 0 THEN <<>>
        ELSE <<[len1 |-> stars, group2 |-> From(s, stars + 1)]>>

\* The dictionary yielded for a match of one of the two patterns.
NodeYield(match, depth_start) ==
    IF match = <<>> THEN <<>>
    ELSE <<[code |-> Strip(match[1].group2),
            depth |-> depth_start + match[1].len1,
            children |-> <<>>]>>

\* ExcludeYield that keeps the whitespace around the header.
ExcludeYield_unstripped(line) ==
    IF StartsWith(line, ExcludePrefix)
    THEN <<[type |-> "exclude", header |-> remove_prefix(line, ExcludePrefix)]>>
    ELSE <<>>

\* The dictionary yielded for a line that starts with ": Exclude:".
ExcludeYield(line) ==
    IF StartsWith(line, ExcludePrefix)
    THEN <<[type |-> "exclude", header |-> Strip(remove_prefix(line, ExcludePrefix))]>>
    ELSE <<>>

\* generate_sitemap_nodes that counts the depth of a list element from 0,
\* as it does for a headline.
generate_sitemap_nodes_flat(line) ==
    NodeYield(headline_re(Strip(line)), 0)
        \o NodeYield(list_re(Strip(line)), 0)
        \o ExcludeYield(line)

\* What one iteration of the loop over the lines yields, in order: both
\* patterns are tried on the stripped line, the directive on the raw line.
generate_sitemap_nodes(line) ==
    NodeYield(headline_re(Strip(line)), 0)
        \o NodeYield(list_re(Strip(line)), max_headline_depth)
        \o ExcludeYield(line)

\* lookup(node, "type") == "exclude": a node dictionary has no "type" key.
IsExclude(y) == "type" \in DOMAIN y /\ y.type = "exclude"

(***************************************************************************)
(* The lines a sitemap text is made of in this model.                       *)
(***************************************************************************)
LineBook == <<"=", " ", "[", "[", "B", "o", "o", "k", "1", "|", "B", "1", "]", "]", " ", "=">>

LineChapter == <<"=", "=", " ", "B", "a", "z", " ", "=", "=">>

LineSection == <<" ", "=", "=", "=", " ", "a", " ", "=", "=", "=">>

LineArt == <<"*", " ", "[", "[", "A", "r", "t", "1", "|", "A", "1", "]", "]">>

LineSub == <<"*", "*", " ", "B", "a", "z", " ", "{", "{", "S", "y", "m", "b", "o", "l", "|", "5", "0", "%", "}", "}">>

LineExclude == <<":", " ", "E", "x", "c", "l", "u", "d", "e", ":", " ", "s", "k", "i", "p", " ", "t", "h", "i", "s">>

LineExclude2 == <<":", " ", "E", "x", "c", "l", "u", "d", "e", ":", " ", "b">>

LineComment == <<" ", ":", " ", "E", "x", "c", "l", "u", "d", "e", ":", " ", "b">>

Lines ==
    {LineBook, LineChapter, LineSection, LineArt, LineSub,
     LineExclude, LineExclude2, LineComment}

\* The dictionaries each line of the model yields.  Joined with the empty
\* function, the table is enumerated once and then looked up.
Yielded == [line \in Lines |-> generate_sitemap_nodes(line)] @@ <<>>

\* The codes of the nodes of a raw tree: the code of the synthetic root and
\* the codes the lines yield.
Codes ==
    {RootCode} \cup
    UNION {{Yielded[line][k].code :
               k \in {j \in 1..Len(Yielded[line]) : ~IsExclude(Yielded[line][j])}} :
           line \in Lines}

(***************************************************************************)
(* insert_node and the loop body of parse_sitemap.                          *)
(***************************************************************************)
\* Arena index of the synthetic root, and the value None of last_node.
root == 1

None == 0

\* last_node that starts at the root.
InitialLastNode_root == root

\* last_node before the first line is read.
InitialLastNode == None

\* node["children"][-1]
LastChild(ns, node) == ns[node].children[Len(ns[node].children)]

\* insert_node with the comparison turned around.
RECURSIVE insert_node_less(_, _, _)
insert_node_less(ns, node, new) ==
    IF ns[node].children # <<>> /\ ns[new].depth < ns[LastChild(ns, node)].depth
    THEN insert_node_less(ns, LastChild(ns, node), new)
    ELSE [ns EXCEPT ![node].children = Append(@, new)]

\* insert_node that also descends into a last child of the same depth.
RECURSIVE insert_node_equal(_, _, _)
insert_node_equal(ns, node, new) ==
    IF ns[node].children # <<>> /\ ns[new].depth >= ns[LastChild(ns, node)].depth
    THEN insert_node_equal(ns, LastChild(ns, node), new)
    ELSE [ns EXCEPT ![node].children = Append(@, new)]

\* insert_node that looks at the first child, children[0], not the last.
RECURSIVE insert_node_first(_, _, _)
insert_node_first(ns, node, new) ==
    IF ns[node].children # <<>> /\ ns[new].depth > ns[ns[node].children[1]].depth
    THEN insert_node_first(ns, ns[node].children[1], new)
    ELSE [ns EXCEPT ![node].children = Append(@, new)]

\* insert_node(node, new_node) on the arena ns, which already holds the
\* dictionary of new_node at index new.
RECURSIVE insert_node(_, _, _)
insert_node(ns, node, new) ==
    IF ns[node].children # <<>> /\ ns[new].depth > ns[LastChild(ns, node)].depth
    THEN insert_node(ns, LastChild(ns, node), new)
    ELSE [ns EXCEPT ![node].children = Append(@, new)]

\* The loop body with the header put in front of the excludes list.
LoopBody_prepend(st, y) ==
    IF IsExclude(y)
    THEN IF st.last_node = None
         THEN [st EXCEPT !.err = "AssertionError"]
         ELSE [st EXCEPT !.nodes[st.last_node].excludes = <<y.header>> \o @,
                         !.nodes[st.last_node].has_excludes = TRUE]
    ELSE LET new == Len(st.nodes) + 1
             dict == [code |-> y.code, depth |-> y.depth, children |-> y.children,
                      excludes |-> <<>>, has_excludes |-> FALSE]
         IN  [st EXCEPT !.last_node = new,
                        !.nodes = insert_node(Append(st.nodes, dict), root, new)]

\* One iteration of the loop of parse_sitemap on the yielded dictionary y.
\* st holds the arena, last_node and the exception raised so far.
LoopBody(st, y) ==
    IF IsExclude(y)
    THEN IF st.last_node = None
         THEN [st EXCEPT !.err = "AssertionError"]
         ELSE [st EXCEPT !.nodes[st.last_node].excludes = Append(@, y.header),
                         !.nodes[st.last_node].has_excludes = TRUE]
    ELSE LET new == Len(st.nodes) + 1
             dict == [code |-> y.code, depth |-> y.depth, children |-> y.children,
                      excludes |-> <<>>, has_excludes |-> FALSE]
         IN  [st EXCEPT !.last_node = new,
                        !.nodes = insert_node(Append(st.nodes, dict), root, new)]

\* The loop of parse_sitemap over the dictionaries ys, up to an exception.
RECURSIVE Consume(_, _)
Consume(st, ys) ==
    IF ys = <<>> \/ st.err # "none" THEN st
    ELSE Consume(LoopBody(st, Head(ys)), Tail(ys))

(***************************************************************************)
(* parse_sitemap_node_codes and add_sitemap_node_type.                      *)
(***************************************************************************)
\* Match of \s+\{Symbol\|\d+%\}\}\s+\Z from position i of s on: whitespace,
\* the text {Symbol| , digits, the text %}} and whitespace up to the end.
\* No piece can give a character back to the next one, so each run is the
\* longest one.
symbol_re(s, i) ==
    LET a == Run(s, i, Space, TRUE)
        open == i + a
        d == Run(s, open + Len(SymbolOpen), Digit, TRUE)
        close == open + Len(SymbolOpen) + d
        b == Run(s, close + Len(SymbolClose), Space, TRUE)
    IN  /\ a >= 1
        /\ Slice(s, open, open + Len(SymbolOpen) - 1) = SymbolOpen
        /\ d >= 1
        /\ Slice(s, close, close + Len(SymbolClose) - 1) = SymbolClose
        /\ b >= 1
        /\ close + Len(SymbolClose) + b = Len(s) + 1

\* re.sub(r"\s+\{Symbol\|\d+%\}\}\s+\Z", "", code): the pattern ends at the
\* end of the string, so the leftmost match, if any, is cut off.
StripSymbol(code) ==
    LET starts == {i \in 1..Len(code) : symbol_re(code, i)}
    IN  IF starts = {} THEN code ELSE SubSeq(code, 1, Min(starts) - 1)

\* re.match of \[\[([^|\]]+)\|([^|\]]+)\]\] at the start of code; what
\* follows the closing brackets is not looked at.
link_re(code) ==
    LET t == Run(code, 3, {"|", "]"}, FALSE)
        n == Run(code, 4 + t, {"|", "]"}, FALSE)
    IN  IF /\ Len(code) >= 2 /\ code[1] = "[" /\ code[2] = "["
           /\ t >= 1
           /\ Len(code) >= 3 + t /\ code[3 + t] = "|"
           /\ n >= 1
           /\ Len(code) >= 5 + t + n
           /\ code[4 + t + n] = "]" /\ code[5 + t + n] = "]"
        THEN <<[group1 |-> SubSeq(code, 3, 2 + t),
                group2 |-> SubSeq(code, 4 + t, 3 + t + n)]>>
        ELSE <<>>

\* The title and the name parsed out of a code.  A title is <<>> (None) or
\* <<t>>.
ParseCode(code) ==
    LET stripped == StripSymbol(code)
        match == link_re(stripped)
    IN  IF match # <<>>
        THEN [title |-> <<match[1].group1>>, name |-> match[1].group2]
        ELSE [title |-> <<>>, name |-> stripped]

\* ParseCode, computed once for each code of the model.
Parsed == [code \in Codes |-> ParseCode(code)] @@ <<>>

\* The IndexError of SITEMAP_NODE_TYPES[depth], in place of a returned tree.
IndexError == [error |-> "IndexError"]

Raised(x) == "error" \in DOMAIN x

\* Whether an element of a list comprehension raised, and so the
\* comprehension as a whole.
AnyRaised(kids) == \E k \in 1..Len(kids) : Raised(kids[k])

RECURSIVE add_sitemap_node_type(_, _)

\* [add_sitemap_node_type(x, depth) for x in children]
RECURSIVE AddTypes(_, _)
AddTypes(children, depth) ==
    IF children = <<>> THEN <<>>
    ELSE <<add_sitemap_node_type(Head(children), depth)>>
             \o AddTypes(Tail(children), depth)

\* add_sitemap_node_type that types the node and leaves its children as
\* they are.
add_sitemap_node_type_shallow(node, depth) ==
    IF depth + 1 > Len(SITEMAP_NODE_TYPES) THEN IndexError
    ELSE [title |-> node.title,
          name |-> node.name,
          type |-> SITEMAP_NODE_TYPES[depth + 1],
          children |-> node.children,
          excludes |-> node.excludes]

add_sitemap_node_type(node, depth) ==
    IF depth + 1 > Len(SITEMAP_NODE_TYPES) THEN IndexError
    ELSE LET kids == AddTypes(node.children, depth + 1)
         IN  IF AnyRaised(kids) THEN IndexError
             ELSE [title |-> node.title,
                   name |-> node.name,
                   type |-> SITEMAP_NODE_TYPES[depth + 1],
                   children |-> kids,
                   excludes |-> node.excludes]

RECURSIVE parse_sitemap_node_codes(_, _)

\* [parse_sitemap_node_codes(x) for x in children], children being arena
\* indices.
RECURSIVE ParseChildren(_, _)
ParseChildren(ns, children) ==
    IF children = <<>> THEN <<>>
    ELSE <<parse_sitemap_node_codes(ns, Head(children))>>
             \o ParseChildren(ns, Tail(children))

\* parse_sitemap_node_codes(node) for the node at index i of the arena ns.
parse_sitemap_node_codes(ns, i) ==
    LET kids == ParseChildren(ns, ns[i].children)
        parsed == Parsed[ns[i].code]
    IN  IF AnyRaised(kids) THEN IndexError
        ELSE add_sitemap_node_type(
                 [title |-> parsed.title,
                  name |-> parsed.name,
                  children |-> kids,
                  excludes |-> IF ns[i].has_excludes THEN ns[i].excludes ELSE <<>>],
                 0)

(***************************************************************************)
(* parse_sitemap as a state machine: one step per line of the text, then    *)
(* the return.  `text` is the part of the sitemap text read so far; the     *)
(* text may end after any line.                                             *)
(***************************************************************************)
RootNode ==
    [code |-> RootCode, depth |-> 0, children |-> <<>>,
     excludes |-> <<>>, has_excludes |-> FALSE]

Init ==
    /\ text = <<>>
    /\ nodes = <<RootNode>>
    /\ last_node = InitialLastNode
    /\ pc = "reading"
    /\ err = "none"
    /\ result = <<>>

\* One pass of the loop over the lines: the dictionaries of `line` are
\* consumed by the loop of parse_sitemap, up to an exception.
Read(line, raises) ==
    \E st \in {Consume([nodes |-> nodes, last_node |-> last_node, err |-> err],
                        Yielded[line])} :
        /\ (st.err # "none") = raises
        /\ text' = Append(text, line)
        /\ nodes' = st.nodes
        /\ last_node' = st.last_node
        /\ err' = st.err
        /\ pc' = IF raises THEN "raised" ELSE "reading"
        /\ UNCHANGED result

MoreText == pc = "reading" /\ Len(text) < MaxLines

\* A line that yields nothing.
SkipLine ==
    /\ MoreText
    /\ \E line \in Lines : Yielded[line] = <<>> /\ Read(line, FALSE)

\* A line whose dictionaries are consumed without an exception.
YieldLine ==
    /\ MoreText
    /\ \E line \in Lines : Yielded[line] # <<>> /\ Read(line, FALSE)

\* A line at which the assertion of the loop fails.
AssertLine ==
    /\ MoreText
    /\ \E line \in Lines : Yielded[line] # <<>> /\ Read(line, TRUE)

\* End of the text: return parse_sitemap_node_codes(root), or fail with
\* its IndexError.
Return ==
    /\ pc = "reading"
    /\ \E tree \in {parse_sitemap_node_codes(nodes, root)} :
           IF Raised(tree)
           THEN pc' = "raised" /\ err' = tree.error /\ UNCHANGED result
           ELSE pc' = "returned" /\ result' = <<tree>> /\ UNCHANGED err
    /\ UNCHANGED <<text, nodes, last_node>>

Next == SkipLine \/ YieldLine \/ AssertLine \/ Return

Spec == Init /\ [][Next]_vars

(***************************************************************************)
(* Vocabulary of the properties.                                            *)
(***************************************************************************)
\* <<1, ..., n>>
Iota(n) == [i \in 1..n |-> i]

\* The stream of the classifier for the text t: the yielded dictionaries in
\* order, each with the position of its line in t.
RECURSIVE Stream(_)
Stream(t) ==
    IF t = <<>> THEN <<>>
    ELSE Stream(SubSeq(t, 1, Len(t) - 1))
           \o [k \in 1..Len(Yielded[t[Len(t)]]) |->
                  [line |-> Len(t), dict |-> Yielded[t[Len(t)]][k]]]

IsNodeEvent(e) == ~IsExclude(e.dict)

\* The node dictionaries of the text read so far, in source order: the
\* node inserted i-th is NodeEvents[i], and it sits at arena index i + 1.
NodeEvents == SelectSeq(Stream(text), IsNodeEvent)

Inserted == 2..Len(nodes)

\* For each node of the arena, the set of the nodes that have it among
\* their children: the child lists are walked once, from child k of node p
\* on.
RECURSIVE CollectParents(_, _, _)
CollectParents(ps, p, k) ==
    IF p > Len(nodes) THEN ps
    ELSE IF k > Len(nodes[p].children) THEN CollectParents(ps, p + 1, 1)
    ELSE CollectParents([ps EXCEPT ![nodes[p].children[k]] = @ \cup {p}], p, k + 1)

ParentSets == CollectParents([i \in 1..Len(nodes) |-> {}], 1, 1)

\* The parent of node i under the parent sets ps.
Parent(ps, i) == CHOOSE p \in ps[i] : TRUE

\* Whether b lies in the subtree below a.
RECURSIVE IsDescendant(_, _, _)
IsDescendant(ps, b, a) ==
    /\ ps[b] # {}
    /\ \/ Parent(ps, b) = a
       \/ IsDescendant(ps, Parent(ps, b), a)

\* Number of edges between node i and the root.
RECURSIVE Distance(_, _)
Distance(ps, i) == IF ps[i] = {} THEN 0 ELSE 1 + Distance(ps, Parent(ps, i))

\* Depth-first pre-order traversal of the subtree of the arena ns at i.
RECURSIVE Preorder(_, _)
RECURSIVE PreorderAll(_, _)
PreorderAll(ns, children) ==
    IF children = <<>> THEN <<>>
    ELSE Preorder(ns, Head(children)) \o PreorderAll(ns, Tail(children))

Preorder(ns, i) == <<i>> \o PreorderAll(ns, ns[i].children)

\* Depth-first pre-order traversal of a returned tree: its nodes, each with
\* its distance from the root of the tree.
RECURSIVE Flatten(_, _)
RECURSIVE FlattenAll(_, _)
FlattenAll(trees, dist) ==
    IF trees = <<>> THEN <<>>
    ELSE Flatten(Head(trees), dist) \o FlattenAll(Tail(trees), dist)

Flatten(tree, dist) ==
    <<[node |-> tree, dist |-> dist]>> \o FlattenAll(tree.children, dist + 1)

\* The nodes of the returned tree in pre-order.
Returned == Flatten(result[1], 0)

(***************************************************************************)
(* Tree assembly.                                                           *)
(***************************************************************************)
\* C1, as stated: for inserted nodes A before B with depth(B) > depth(A)
\* and no node of depth >= depth(B) inserted between them, B is a
\* descendant of A.
C1_DepthMonotonicAsStated ==
    LET ps == ParentSets
    IN  \A a \in Inserted, b \in Inserted :
            ( /\ a < b
              /\ nodes[b].depth > nodes[a].depth
              /\ \A k \in (a + 1)..(b - 1) : nodes[k].depth < nodes[b].depth )
            => IsDescendant(ps, b, a)

\* C1, amended: for inserted nodes A before B with depth(B) > depth(A) and
\* every node inserted between them deeper than A, B is a descendant of A.
C1_DepthMonotonic ==
    LET ps == ParentSets
    IN  \A a \in Inserted, b \in Inserted :
            ( /\ a < b
              /\ nodes[b].depth > nodes[a].depth
              /\ \A k \in (a + 1)..(b - 1) : nodes[k].depth > nodes[a].depth )
            => IsDescendant(ps, b, a)

\* A node B below an earlier node A, with a node at least as deep as B
\* inserted between the two.
C1_Witness ==
    \E a \in Inserted, b \in Inserted :
        /\ a + 1 < b
        /\ nodes[b].depth > nodes[a].depth
        /\ \A k \in (a + 1)..(b - 1) : nodes[k].depth > nodes[a].depth
        /\ \E k \in (a + 1)..(b - 1) : nodes[k].depth >= nodes[b].depth
        /\ IsDescendant(ParentSets, b, a)

\* C5: the inserted nodes have depth >= 1, and every node of the tree, the
\* root included, has only children of strictly greater depth.
C5_ChildrenDeeper ==
    /\ \A i \in Inserted : nodes[i].depth >= 1
    /\ \A p \in 1..Len(nodes) :
           \A k \in 1..Len(nodes[p].children) :
               nodes[nodes[p].children[k]].depth > nodes[p].depth

\* A tree with a node that was inserted right after a node of the same
\* depth, and with a node two levels below the root.
C5_Witness ==
    /\ \E i \in Inserted : i > 2 /\ nodes[i].depth = nodes[i - 1].depth
    /\ \E i \in Inserted : Distance(ParentSets, i) >= 2

\* The most recently inserted node among j, j - 1, ..., 2 that is less
\* deep than node i, or the root.
RECURSIVE ShallowerFrom(_, _)
ShallowerFrom(i, j) ==
    IF j < 2 THEN root
    ELSE IF nodes[j].depth < nodes[i].depth THEN j
    ELSE ShallowerFrom(i, j - 1)

\* The most recently inserted node before i that is less deep than i, or
\* the root.
NearestShallower(i) == ShallowerFrom(i, i - 1)

\* The reference stack algorithm: pop every open node as deep as d or
\* deeper ...
RECURSIVE Pop(_, _)
Pop(stack, d) ==
    IF nodes[stack[Len(stack)]].depth >= d
    THEN Pop(SubSeq(stack, 1, Len(stack) - 1), d)
    ELSE stack

\* ... and attach node i to the node left on top; the parents of the nodes
\* i, i + 1, ... in order.
RECURSIVE StackParents(_, _)
StackParents(i, stack) ==
    IF i > Len(nodes) THEN <<>>
    ELSE LET open == Pop(stack, nodes[i].depth)
         IN  <<open[Len(open)]>> \o StackParents(i + 1, Append(open, i))

\* C9: the parent of each inserted node is the most recently inserted
\* earlier node of strictly smaller depth, or the root when there is none;
\* this is the tree of the reference stack algorithm.
C9_ParentIsNearestShallower ==
    LET ps == ParentSets
        reference == StackParents(2, <<root>>)
    IN  /\ ps[root] = {}
        /\ \A i \in Inserted :
               /\ ps[i] = {NearestShallower(i)}
               /\ ps[i] = {reference[i - 1]}

\* A node whose parent is neither the root nor the node inserted just
\* before it: the stack algorithm popped down to an inner node.
C9_Witness ==
    \E i \in Inserted :
        /\ NearestShallower(i) \notin {root, i - 1}
        /\ ParentSets[i] = {NearestShallower(i)}

\* The rightmost path of the tree: the root, its last child, the last child
\* of that one, and so on.
RECURSIVE RightmostPath(_)
RightmostPath(i) ==
    IF nodes[i].children = <<>> THEN {i}
    ELSE {i} \cup RightmostPath(LastChild(nodes, i))

\* The pre-order traversal of the tree lists the nodes in insertion order,
\* which is the order of their lines; so does the returned tree.
InSourceOrder ==
    LET events == NodeEvents
        returned == Returned
    IN  /\ Len(nodes) = Len(events) + 1
        /\ Preorder(nodes, root) = Iota(Len(nodes))
        /\ \A i \in Inserted :
               /\ nodes[i].code = events[i - 1].dict.code
               /\ nodes[i].depth = events[i - 1].dict.depth
               /\ i > 2 => events[i - 2].line <= events[i - 1].line
        /\ pc = "returned" =>
               /\ Len(returned) = Len(nodes)
               /\ \A i \in 1..Len(nodes) :
                      /\ returned[i].node.name = Parsed[nodes[i].code].name
                      /\ returned[i].node.title = Parsed[nodes[i].code].title

\* A step adds at most one node, as a leaf and as the new last child of a
\* node of the rightmost path, and leaves every other child list and every
\* code and depth as they are.
AppendOnly ==
    /\ Len(nodes') \in {Len(nodes), Len(nodes) + 1}
    /\ \A i \in 1..Len(nodes) :
           /\ nodes'[i].code = nodes[i].code
           /\ nodes'[i].depth = nodes[i].depth
    /\ Len(nodes') = Len(nodes) =>
           \A i \in 1..Len(nodes) : nodes'[i].children = nodes[i].children
    /\ Len(nodes') = Len(nodes) + 1 =>
           /\ nodes'[Len(nodes')].children = <<>>
           /\ \E p \in RightmostPath(root) :
                  /\ nodes'[p].children = Append(nodes[p].children, Len(nodes'))
                  /\ \A i \in 1..Len(nodes) :
                         i # p => nodes'[i].children = nodes[i].children

\* C10: the tree assembly is append-only and order-preserving: each
\* insertion adds one node as the new last leaf of the rightmost path and
\* moves no other node, so the pre-order traversal of the tree, and of the
\* returned tree, lists the nodes in insertion (source line) order.
C10_AppendOnlyInOrder == []InSourceOrder /\ [][AppendOnly]_vars

\* A returned tree in which a node was appended to an inner node of the
\* rightmost path, next to an older sibling that has children of its own.
C10_Witness ==
    /\ pc = "returned"
    /\ \E p \in Inserted :
           /\ Len(nodes[p].children) >= 2
           /\ nodes[nodes[p].children[1]].children # <<>>

\* The lines that yield a headline node, and those that yield a list node.
HeadlineLines == {line \in Lines : headline_re(Strip(line)) # <<>>}

ListLines == {line \in Lines : list_re(Strip(line)) # <<>>}

\* The lines that the inserted nodes come from, in insertion order: the
\* lines of the node events of the stream ev.
RECURSIVE LinesOf(_)
LinesOf(ev) ==
    IF ev = <<>> THEN <<>>
    ELSE LinesOf(SubSeq(ev, 1, Len(ev) - 1)) \o <<text[ev[Len(ev)].line]>>

NodeLines == LinesOf(NodeEvents)

\* The most recently inserted node among j, j - 1, ..., 2 that comes from a
\* headline line, or None; `from` holds the lines of the nodes.
RECURSIVE HeadlineFrom(_, _)
HeadlineFrom(from, j) ==
    IF j < 2 THEN None
    ELSE IF from[j - 1] \in HeadlineLines THEN j
    ELSE HeadlineFrom(from, j - 1)

\* C8: a list line with m leading asterisks gets depth 6 + m, a headline a
\* depth of 1 to 6, and every node of a list line that comes after a headline
\* line is a descendant of the node of the most recent headline line before
\* it.
C8_ListUnderHeadline ==
    LET from == NodeLines
        ps == ParentSets
    IN  \A i \in Inserted :
            /\ from[i - 1] \in HeadlineLines => nodes[i].depth \in 1..6
            /\ from[i - 1] \in ListLines =>
                   /\ nodes[i].depth = 6 + Run(Strip(from[i - 1]), 1, {"*"}, TRUE)
                   /\ HeadlineFrom(from, i - 1) # None =>
                          IsDescendant(ps, i, HeadlineFrom(from, i - 1))

\* A list node below the most recent headline, with a deeper headline before
\* that one and another list node in between.
C8_Witness ==
    \E i \in Inserted :
        /\ NodeLines[i - 1] \in ListLines
        /\ HeadlineFrom(NodeLines, i - 1) \in 3..(i - 2)
        /\ IsDescendant(ParentSets, i, HeadlineFrom(NodeLines, i - 1))
        /\ \E h \in 2..(HeadlineFrom(NodeLines, i - 1) - 1) :
               /\ NodeLines[h - 1] \in HeadlineLines
               /\ nodes[h].depth > nodes[HeadlineFrom(NodeLines, i - 1)].depth

(***************************************************************************)
(* Exclude directives.                                                      *)
(***************************************************************************)
\* The excludes lists of the inserted nodes, one per node event of the
\* stream ev, by the rule of the specification: a directive goes to the end
\* of the list of the node event that precedes it most closely.
RECURSIVE Attached(_)
Attached(ev) ==
    IF ev = <<>> THEN <<>>
    ELSE LET before == Attached(SubSeq(ev, 1, Len(ev) - 1))
             e == ev[Len(ev)]
         IN  IF IsNodeEvent(e) THEN Append(before, <<>>)
             ELSE IF before = <<>> THEN before
             ELSE [before EXCEPT ![Len(before)] = Append(@, e.dict.header)]

\* Every node holds the headers of the directives that follow it directly,
\* in source order, the root holds none, and the returned tree carries the
\* same lists.
ExcludesAttached ==
    LET attached == Attached(Stream(text))
        returned == Returned
    IN  /\ nodes[root].excludes = <<>>
        /\ Len(attached) = Len(nodes) - 1
        /\ \A i \in Inserted : nodes[i].excludes = attached[i - 1]
        /\ pc = "returned" =>
               /\ Len(returned) = Len(nodes)
               /\ \A i \in 1..Len(nodes) :
                      returned[i].node.excludes = nodes[i].excludes

\* The step read a line that yields exclude directives only.
ReadsDirective ==
    /\ Len(text') = Len(text) + 1
    /\ Yielded[text'[Len(text')]] # <<>>
    /\ \A k \in 1..Len(Yielded[text'[Len(text')]]) :
           IsExclude(Yielded[text'[Len(text')]][k])

\* A directive that follows a node changes the excludes list of the node
\* inserted last, by appending its header, and nothing else in the tree.
DirectiveStep ==
    (ReadsDirective /\ Len(nodes) > 1) =>
        /\ Len(nodes') = Len(nodes)
        /\ \A i \in 1..Len(nodes) :
               /\ nodes'[i].children = nodes[i].children
               /\ nodes'[i].code = nodes[i].code
               /\ nodes'[i].depth = nodes[i].depth
               /\ i # Len(nodes) => nodes'[i].excludes = nodes[i].excludes
        /\ nodes'[Len(nodes)].excludes =
               nodes[Len(nodes)].excludes
                   \o [k \in 1..Len(Yielded[text'[Len(text')]]) |->
                          Yielded[text'[Len(text')]][k].header]

\* C6: every exclude directive that follows a node is attached to the node
\* most recently inserted before it and to no other: its header is appended
\* to the end of that node's excludes list, the structure of the tree stays
\* as it is, and a node without a directive after it, the root among them,
\* ends with an empty excludes list.
C6_ExcludeToLastNode == []ExcludesAttached /\ [][DirectiveStep]_vars

\* A returned tree with two directives on an inner node that is no longer
\* the last node, and a node without directives.
C6_Witness ==
    /\ pc = "returned"
    /\ \E i \in Inserted :
           /\ i < Len(nodes)
           /\ Len(nodes[i].excludes) = 2
           /\ nodes[i].excludes[1] # nodes[i].excludes[2]
           /\ nodes[Len(nodes)].excludes = <<>>
           /\ Returned[i].node.excludes = nodes[i].excludes

\* C4: an exclude directive that is yielded before any node, as the first
\* line or after skipped lines only, makes parse_sitemap fail at that
\* directive with a fatal error; no tree is returned.
C4_OrphanExcludeFails ==
    LET stream == Stream(text)
    IN  (stream # <<>> /\ IsExclude(stream[1].dict)) =>
            /\ pc = "raised"
            /\ err = "AssertionError"
            /\ result = <<>>
            /\ stream[1].line = Len(text)

\* The failure at a directive that is preceded by a skipped line.
C4_Witness ==
    /\ Len(text) >= 2
    /\ Stream(text) # <<>>
    /\ IsExclude(Stream(text)[1].dict)
    /\ Stream(text)[1].line = Len(text)
    /\ pc = "raised"

(***************************************************************************)
(* The returned tree.                                                       *)
(***************************************************************************)
\* The type the vocabulary gives to a node at distance dist from the root.
TypeAtDistance(dist) ==
    CASE dist = 0 -> "mfnf_sitemap"
      [] dist = 1 -> "book"
      [] dist = 2 -> "chapter"
      [] dist = 3 -> "article"
      [] dist = 4 -> "article"

\* The distances of the nodes 1, ..., Len(nodes) from the root, from node i
\* on: a node is inserted below a node that is already in the tree, so its
\* parent comes before it.
RECURSIVE DistancesFrom(_, _, _)
DistancesFrom(ps, dists, i) ==
    IF i > Len(nodes) THEN dists
    ELSE DistancesFrom(ps,
                       Append(dists, IF ps[i] = {} THEN 0
                                     ELSE dists[Parent(ps, i)] + 1),
                       i + 1)

Distances == DistancesFrom(ParentSets, <<>>, 1)

\* The longest distance between a node and the root.
RECURSIVE Highest(_, _)
Highest(dists, i) ==
    IF i > Len(dists) THEN 0
    ELSE LET rest == Highest(dists, i + 1)
         IN  IF dists[i] > rest THEN dists[i] ELSE rest

Height == Highest(Distances, 1)


\* C3: every node of a returned tree has the type of the vocabulary at its
\* distance from the root, although the fused pass first types every subtree
\* with its own root at depth 0; and a tree with a node at distance 5 or more
\* from the root makes the call fail with an index error, no tree being
\* returned.
C3_TypeByDistance ==
    (pc # "reading" /\ err # "AssertionError") =>
        LET dists == Distances
        IN  IF Highest(dists, 1) >= 5
            THEN pc = "raised" /\ err = "IndexError" /\ result = <<>>
            ELSE /\ pc = "returned" /\ err = "none"
                 /\ LET returned == Returned
                    IN  /\ Len(returned) = Len(nodes)
                        /\ \A i \in 1..Len(nodes) :
                               /\ returned[i].dist = dists[i]
                               /\ returned[i].node.type = TypeAtDistance(dists[i])
                 /\ \A k \in 1..Len(nodes[root].children) :
                        parse_sitemap_node_codes(nodes, nodes[root].children[k]).type
                            = "mfnf_sitemap"

\* The failed call for a tree with a node at distance 5 from the root.
C3_Witness ==
    /\ pc = "raised"
    /\ err = "IndexError"
    /\ Height = 5

\* A returned tree with nodes at the distances 1 to 4.
C3_ReturnedDeepTree ==
    /\ pc = "returned"
    /\ \E i \in Inserted :
           Distance(ParentSets, i) = 4 /\ Returned[i].node.type = "article"

\* The three lines of the scenario.
Scenario == <<LineBook, LineArt, LineExclude>>

B1 == <<"B", "1">>

A1 == <<"A", "1">>

SkipThis == <<"s", "k", "i", "p", " ", "t", "h", "i", "s">>

\* The tree of the scenario, up to the type of the list item.
ScenarioTree(type) ==
    /\ pc = "returned"
    /\ Len(result[1].children) = 1
    /\ result[1].children[1].type = "book"
    /\ result[1].children[1].name = B1
    /\ Len(result[1].children[1].children) = 1
    /\ result[1].children[1].children[1].type = type
    /\ result[1].children[1].children[1].name = A1
    /\ result[1].children[1].children[1].excludes = <<SkipThis>>
    /\ result[1].children[1].children[1].children = <<>>

\* C2, as stated: parse_sitemap on the three lines of the scenario returns a
\* root with one child of type book and name B1, whose single child has the
\* type article, the name A1 and the excludes ["skip this"].
C2_ScenarioAsStated ==
    (text = Scenario /\ pc # "reading") => ScenarioTree("article")

\* C2, amended: ... whose single child has the type chapter, the name A1 and
\* the excludes ["skip this"]: a list item directly under a top-level
\* headline is at distance 2 from the root.
C2_Scenario ==
    (text = Scenario /\ pc # "reading") => ScenarioTree("chapter")

\* The call on the scenario has returned.
C2_Witness == text = Scenario /\ pc = "returned"

\* The positions of a code from which on it fully matches the suffix
\* whitespace, {{Symbol| , digits, %}} .
SymbolSuffixStarts(code) ==
    {i \in 1..Len(code) :
        LET a == Run(code, i, Space, TRUE)
            open == i + a
            d == Run(code, open + 1 + Len(SymbolOpen), Digit, TRUE)
            close == open + 1 + Len(SymbolOpen) + d
        IN  /\ a >= 1
            /\ Slice(code, open, open + Len(SymbolOpen)) = <<"{">> \o SymbolOpen
            /\ d >= 1
            /\ From(code, close) = SymbolClose}

\* C7: a code c followed by whitespace and {{Symbol|<digits>%}} is parsed to
\* the title and the name of c alone.
C7_SuffixStripped ==
    pc = "returned" =>
        LET returned == Returned
        IN  \A n \in 1..Len(nodes) :
                \A i \in SymbolSuffixStarts(nodes[n].code) :
                    LET alone == ParseCode(SubSeq(nodes[n].code, 1, i - 1))
                    IN  /\ returned[n].node.name = alone.name
                        /\ returned[n].node.title = alone.title

====
